---- MODULE Spec2Model ----
(***************************************************************************)
(* Model of the extraction pipeline of scraper.py (class CommodityScraper): *)
(* fetch_page, extract_price_from_cell, clean_commodity_name, parse_price,  *)
(* is_target_commodity, scrape_all_tables and scrape_commodities.           *)
(*                                                                          *)
(* Python strings are sequences of one-character strings.  A document is a  *)
(* tree of nodes as BeautifulSoup builds it with html.parser: an element    *)
(* has a tag, an id, a class and children; a text node has tag "#text".     *)
(* Nodes are addressed by their path (child indices from the root), so two  *)
(* equal-looking rows at different places stay distinct.                    *)
(***************************************************************************)
EXTENDS Integers, Sequences, FiniteSets, TLC

VARIABLES
    target_commodities, \* self.target_commodities, the ordered target list
    pc,                 \* position of the run
    soup,               \* the parsed document fetch_page returned
    tables,             \* scrape_all_tables: soup.find_all('table'), as paths
    ti,                 \* index of the table being scanned
    rows,               \* scrape_all_tables: table.find_all('tr'), as paths
    ri,                 \* index of the row being scanned in rows
    cols,               \* scrape_all_tables: row.find_all(['td', 'th']), as paths
    target,             \* scrape_all_tables: the local `target` of the row
    results,            \* scrape_all_tables: the local mapping `results`
    origin,             \* history: path of the row that wrote results[t]
    prices,             \* what scrape_commodities returned (Unbound before)
    log,                \* records handed to self.logger, in order
    cell,               \* the price cell handed to extract_price_from_cell
    price_text,         \* what extract_price_from_cell returned
    parsed              \* outcome of parse_price(price_text)

vars == <<target_commodities, pc, soup, tables, ti, rows, ri, cols, target,
          results, origin, prices, log, cell, price_text, parsed>>

scanVars == <<target_commodities, soup, tables, ti, rows, ri, cols, target,
              results, origin, prices, log>>

cellVars == <<cell, price_text, parsed>>

----------------------------------------------------------------------------
(* Bounds of the model.                                                     *)

\* number of tokens (table openings and rows) a served document is built of
MaxItems == 4

\* number of child nodes of a price cell in the cell-level specification
MaxKids == 2

----------------------------------------------------------------------------
(* Python strings.                                                          *)

Digits == {"0", "1", "2", "3", "4", "5", "6", "7", "8", "9"}

UPPER == <<"A", "B", "C", "D", "E", "F", "G", "H", "I", "J", "K", "L", "M",
           "N", "O", "P", "Q", "R", "S", "T", "U", "V", "W", "X", "Y", "Z">>

LOWER == <<"a", "b", "c", "d", "e", "f", "g", "h", "i", "j", "k", "l", "m",
           "n", "o", "p", "q", "r", "s", "t", "u", "v", "w", "x", "y", "z">>

Letters == {UPPER[i] : i \in 1..26} \cup {LOWER[i] : i \in 1..26}

\* Python's str.isspace characters that occur in the documents
Whitespace == {" ", "\t", "\n", "\r"}

\* the regex class \w
WordChars == Letters \cup Digits \cup {"_"}

\* str.lower() of one character
lowerChar(c) ==
    IF \E i \in 1..26 : UPPER[i] = c
    THEN LOWER[CHOOSE i \in 1..26 : UPPER[i] = c]
    ELSE c

\* str.lower()
lower(s) == [i \in 1..Len(s) |-> lowerChar(s[i])]

\* the characters of s that are in keep, in order: re.sub(r'[^keep]', '', s)
Keep(s, keep) == SelectSeq(s, LAMBDA c : c \in keep)

\* str.strip()
strip(s) ==
    LET idx == {i \in 1..Len(s) : s[i] \notin Whitespace}
    IN  IF idx = {} THEN <<>>
        ELSE LET lo == CHOOSE i \in idx : \A j \in idx : i <= j
                 hi == CHOOSE i \in idx : \A j \in idx : j <= i
             IN  SubSeq(s, lo, hi)

\* Python's `sub in s`
Contains(s, sub) ==
    \E i \in 0..(Len(s) - Len(sub)) : SubSeq(s, i + 1, i + Len(sub)) = sub

RECURSIVE Concat(_)
\* ''.join(seq)
Concat(ss) == IF ss = <<>> THEN <<>> ELSE Head(ss) \o Concat(Tail(ss))

----------------------------------------------------------------------------
(* Python values that flow between extract_price_from_cell and parse_price. *)

PyNone == [kind |-> "None"]

PyStr(s) == [kind |-> "str", s |-> s]

PyTag(n) == [kind |-> "Tag", node |-> n]

\* a float, as the digits of its integer part without leading zeros and the
\* digits of its fraction without trailing zeros, so that equal numbers are
\* equal values (1234.50 = 1234.5)
PyFloat(int, frac) == [kind |-> "float", int |-> int, frac |-> frac]

\* truthiness as `if result:` and `if not target:` take it: None and the
\* empty string are false; a bs4 Tag is always true (Tag.__bool__)
Truthy(v) ==
    CASE v.kind = "None" -> FALSE
      [] v.kind = "str"  -> v.s # <<>>
      [] OTHER           -> TRUE

----------------------------------------------------------------------------
(* The document tree, with the part of the BeautifulSoup interface the      *)
(* scraper uses.                                                            *)

Text(s) == [tag |-> "#text", id |-> "", class |-> <<>>, text |-> s, kids |-> <<>>]

Elem(tag, id, class, kids) ==
    [tag |-> tag, id |-> id, class |-> class, text |-> <<>>, kids |-> kids]

RECURSIVE NodeAt(_, _)
\* the node at path p below n
NodeAt(n, p) == IF p = <<>> THEN n ELSE NodeAt(n.kids[Head(p)], Tail(p))

\* the paths ps, each below child i
Below(i, ps) == [j \in 1..Len(ps) |-> <<i>> \o ps[j]]

RECURSIVE DescPaths(_)
RECURSIVE KidPaths(_, _)
\* paths of the descendants of n in document order (Tag.descendants)
DescPaths(n) == KidPaths(n, 1)

KidPaths(n, i) ==
    IF i > Len(n.kids) THEN <<>>
    ELSE <<<<i>>>> \o Below(i, DescPaths(n.kids[i])) \o KidPaths(n, i + 1)

\* Tag.find_all(tags): the element descendants of the node at path p whose
\* tag is one of tags, in document order, as paths from the root
find_all(root, p, tags) ==
    LET n  == NodeAt(root, p)
        ds == SelectSeq(DescPaths(n), LAMBDA q : NodeAt(n, q).tag \in tags)
    IN  [j \in 1..Len(ds) |-> p \o ds[j]]

\* Tag.get_text(strip=True): the stripped, non-empty strings below the node,
\* in document order, joined
get_text(n) ==
    LET ds  == SelectSeq(DescPaths(n), LAMBDA q : NodeAt(n, q).tag = "#text")
        strs == [j \in 1..Len(ds) |-> strip(NodeAt(n, ds[j]).text)]
    IN  Concat(SelectSeq(strs, LAMBDA s : s # <<>>))

\* c.find(id='p'): the first descendant element with that id, or None
find_id(c, id) ==
    LET ds == SelectSeq(DescPaths(c),
                        LAMBDA q : NodeAt(c, q).tag # "#text" /\ NodeAt(c, q).id = id)
    IN  IF ds = <<>> THEN PyNone ELSE PyTag(NodeAt(c, Head(ds)))

\* c.find(class_=re.compile(pat, re.I)): the first descendant element whose
\* class contains pat, compared without case, or None
find_class(c, pat) ==
    LET ds == SelectSeq(DescPaths(c),
                        LAMBDA q : /\ NodeAt(c, q).tag # "#text"
                                   /\ NodeAt(c, q).class # <<>>
                                   /\ Contains(lower(NodeAt(c, q).class), lower(pat)))
    IN  IF ds = <<>> THEN PyNone ELSE PyTag(NodeAt(c, Head(ds)))

----------------------------------------------------------------------------
(* extract_price_from_cell                                                  *)

\* re.search(r'\d+', s)
HasDigit(s) == \E i \in 1..Len(s) : s[i] \in Digits

\* the texts of the find_all(tag) elements of c that contain a digit
DigitTexts(c, tag) ==
    LET es == find_all(c, <<>>, {tag})
        ts == [j \in 1..Len(es) |-> get_text(NodeAt(c, es[j]))]
    IN  SelectSeq(ts, HasDigit)

\* a third strategy that takes the elements of the three kinds together, in
\* document order
strategy3_document_order(c) ==
    LET es == find_all(c, <<>>, {"span", "div", "strong"})
        ts == SelectSeq([j \in 1..Len(es) |-> get_text(NodeAt(c, es[j]))], HasDigit)
    IN  IF ts = <<>> THEN PyNone ELSE PyStr(Head(ts))

\* the third strategy: next(text of e for tag in ['span', 'div', 'strong']
\* for e in c.find_all(tag) if the text has a digit), None)
strategy3(c) ==
    LET ts == DigitTexts(c, "span") \o DigitTexts(c, "div") \o DigitTexts(c, "strong")
    IN  IF ts = <<>> THEN PyNone ELSE PyStr(Head(ts))

\* the four strategies, in the order of the list `strategies`
strategies(c) ==
    << find_id(c, "p"),
       find_class(c, <<"p", "r", "i", "c", "e">>),
       strategy3(c),
       PyStr(get_text(c)) >>

\* the first truthy result of the strategies, else None
extract_price_from_cell(c) ==
    LET rs == SelectSeq(strategies(c), Truthy)
    IN  IF rs = <<>> THEN PyNone ELSE Head(rs)

----------------------------------------------------------------------------
(* parse_price                                                              *)

\* float(clean) accepts a string of digits and periods when it has at most
\* one period and at least one digit; otherwise it raises ValueError
FloatOk(clean) ==
    /\ Cardinality({i \in 1..Len(clean) : clean[i] = "."}) <= 1
    /\ HasDigit(clean)

\* the digits without their leading zeros
NoLeadingZeros(ds) ==
    LET nz == {i \in 1..Len(ds) : ds[i] # "0"}
    IN  IF nz = {} THEN <<>>
        ELSE SubSeq(ds, CHOOSE i \in nz : \A j \in nz : i <= j, Len(ds))

\* the digits without their trailing zeros
NoTrailingZeros(ds) ==
    LET nz == {i \in 1..Len(ds) : ds[i] # "0"}
    IN  IF nz = {} THEN <<>>
        ELSE SubSeq(ds, 1, CHOOSE i \in nz : \A j \in nz : j <= i)

\* float(clean) for such a string: the digits before and after the period
float(clean) ==
    LET dots == {i \in 1..Len(clean) : clean[i] = "."}
        dot  == IF dots = {} THEN Len(clean) + 1 ELSE CHOOSE i \in dots : TRUE
    IN  PyFloat(NoLeadingZeros(SubSeq(clean, 1, dot - 1)),
                NoTrailingZeros(SubSeq(clean, dot + 1, Len(clean))))

\* re.sub(r'[^\d.,]', '', price_text).replace(',', '')
clean_price(s) == Keep(Keep(s, Digits \cup {".", ","}), Digits \cup {"."})

\* parse_price: what it returns, whether it logged its warning, and the
\* exception that leaves it ("" when none does).  re.sub raises TypeError for
\* an argument that is not a string; the handler catches only ValueError and
\* AttributeError.
parse_price(x) ==
    IF x.kind # "str"
    THEN [ret |-> PyNone, warned |-> FALSE, raised |-> "TypeError"]
    ELSE LET clean == clean_price(x.s)
         IN  IF clean = <<>>
             THEN [ret |-> PyNone, warned |-> FALSE, raised |-> ""]
             ELSE IF FloatOk(clean)
             THEN [ret |-> float(clean), warned |-> FALSE, raised |-> ""]
             ELSE [ret |-> PyNone, warned |-> TRUE, raised |-> ""]

----------------------------------------------------------------------------
(* clean_commodity_name and is_target_commodity                             *)

\* re.split(r'\n|\r', raw_name)[0]: the text before the first line break
first_line(s) ==
    LET brk == {i \in 1..Len(s) : s[i] \in {"\n", "\r"}}
    IN  IF brk = {} THEN s
        ELSE SubSeq(s, 1, (CHOOSE i \in brk : \A j \in brk : i <= j) - 1)

\* the first line, stripped; then re.sub(r'[^\w\s-]', '', name).strip()
clean_commodity_name(raw_name) ==
    strip(Keep(strip(first_line(raw_name)), WordChars \cup Whitespace \cup {"-"}))

\* the targets, in list order, whose lowercase form is in the lowercase name
matching(targets, name) ==
    SelectSeq(targets, LAMBDA t : Contains(lower(name), lower(t)))

\* an is_target_commodity that returns the label it was given
is_target_returns_name(targets, label) ==
    IF matching(targets, label) = <<>> THEN PyNone ELSE PyStr(label)

\* an is_target_commodity that returns the last target that matches
is_target_last(targets, label) ==
    IF matching(targets, label) = <<>> THEN PyNone
    ELSE PyStr(matching(targets, label)[Len(matching(targets, label))])

\* the first target of the list that is in the name, else None
is_target_commodity(targets, name) ==
    IF matching(targets, name) = <<>> THEN PyNone
    ELSE PyStr(Head(matching(targets, name)))

----------------------------------------------------------------------------
(* Texts and names that occur in the documents.                             *)

Lithium == <<"L", "i", "t", "h", "i", "u", "m">>

Lead == <<"L", "e", "a", "d">>

Cobalt == <<"C", "o", "b", "a", "l", "t">>

\* the default of __init__: ['Lithium', 'Lead', 'Cobalt']
DefaultTargets == <<Lithium, Lead, Cobalt>>

T1234_50 == <<"1", ",", "2", "3", "4", ".", "5", "0">>

T12 == <<"1", "2">>

T34 == <<"3", "4">>

TNA == <<"N", "/", "A">>

T1_2_3 == <<"1", ".", "2", ".", "3">>

ClassPrice == <<"P", "r", "i", "c", "e">>

\* an element with the given text as its only content (no child when empty)
Leaf(tag, id, class, t) ==
    Elem(tag, id, class, IF t = <<>> THEN <<>> ELSE <<Text(t)>>)

\* the (id, class) pairs of the nested elements
Attrs == { <<"", <<>>>>, <<"p", <<>>>>, <<"", ClassPrice>> }

NestedTags == {"span", "div", "strong", "b"}

\* what a price cell may contain
KidCatalog ==
    {Leaf(tag, a[1], a[2], t) : tag \in NestedTags, a \in Attrs, t \in {T1234_50, <<>>}}
    \cup {Leaf(tag, "", <<>>, t) : tag \in NestedTags, t \in {T12, T34, TNA, T1_2_3}}
    \cup {Text(t) : t \in {T1234_50, T12, TNA, T1_2_3, <<" ">>}}
    \cup {Elem("div", "", <<>>, <<Text(T12), Leaf("span", "", <<>>, T34)>>)}

RECURSIVE SeqsUpTo(_, _)
\* the sequences over S of length at most n
SeqsUpTo(S, n) ==
    IF n = 0 THEN {<<>>}
    ELSE SeqsUpTo(S, n - 1)
         \cup {Append(s, x) : s \in {q \in SeqsUpTo(S, n - 1) : Len(q) = n - 1}, x \in S}

\* the price cells of the cell-level specification
PriceCells == {Elem("td", "", <<>>, ks) : ks \in SeqsUpTo(KidCatalog, MaxKids)}

----------------------------------------------------------------------------
(* The cell-level specification: a price cell is handed to                  *)
(* extract_price_from_cell and the result to parse_price, as lines 113-114  *)
(* of scrape_all_tables do.                                                 *)

\* a name that is not bound yet (a local before its assignment)
Unbound == [kind |-> "unbound"]

NoParse == [ret |-> PyNone, warned |-> FALSE, raised |-> "NotCalled"]

\* the dictionary {}
EmptyMap == [t \in {} |-> PyNone]

\* a dictionary as a Python value
PyDict(m) == [kind |-> "dict", map |-> m]

InitCell ==
    /\ target_commodities = DefaultTargets
    /\ pc = "cell"
    /\ soup = Unbound
    /\ tables = Unbound
    /\ ti = 1
    /\ rows = <<>>
    /\ ri = 2
    /\ cols = <<>>
    /\ target = PyNone
    /\ results = EmptyMap
    /\ origin = EmptyMap
    /\ prices = Unbound
    /\ log = <<>>
    /\ cell \in PriceCells
    /\ price_text = PyNone
    /\ parsed = NoParse

\* price_text = self.extract_price_from_cell(cols[1])
ExtractStep ==
    /\ pc = "cell"
    /\ pc' = "extracted"
    /\ price_text' = extract_price_from_cell(cell)
    /\ UNCHANGED <<cell, parsed>>
    /\ UNCHANGED scanVars

\* price_value = self.parse_price(price_text)
ParseStep ==
    /\ pc = "extracted"
    /\ pc' = "parsed"
    /\ parsed' = parse_price(price_text)
    /\ UNCHANGED <<cell, price_text>>
    /\ UNCHANGED scanVars

NextCell == ExtractStep \/ ParseStep

SpecCell == InitCell /\ [][NextCell]_vars

----------------------------------------------------------------------------
(* The documents the server may serve.  A document is a list of tokens: 0   *)
(* opens a new table and i > 0 appends RowCatalog[i] to the open table.     *)

td(kids) == Elem("td", "", <<>>, kids)

tr(cells) == Elem("tr", "", <<>>, cells)

\* a heading that spans the table: one th cell
RowHeading == tr(<<Elem("th", "", <<>>, <<Text(<<"P", "r", "i", "c", "e", "s">>)>>)>>)

RowLithium == tr(<<td(<<Text(Lithium)>>), td(<<Text(<<"5">>)>>)>>)

RowCobaltOre ==
    tr(<<td(<<Text(<<"C", "O", "B", "A", "L", "T", " ", "O", "R", "E">>)>>),
         td(<<Leaf("span", "", <<>>, T1234_50)>>)>>)

\* a label with two targets, a stripped character and a second line
RowLeadLithium ==
    tr(<<td(<<Text(<<"L", "e", "a", "d", "-", "L", "I", "T", "H", "I", "U", "M",
                     "*", "\n", "C", "N", "Y">>)>>),
         td(<<Text(T12)>>)>>)

RowLeadBad == tr(<<td(<<Text(Lead)>>), td(<<Text(T1_2_3)>>)>>)

RowCobaltEmpty == tr(<<td(<<Text(Cobalt)>>), td(<<>>)>>)

\* a row whose second cell holds a table of one row
RowNested ==
    tr(<<td(<<Text(<<"G", "o", "l", "d">>)>>),
         td(<<Elem("table", "", <<>>,
                   <<tr(<<td(<<Text(Lead)>>), td(<<Text(<<"7">>)>>)>>)>>)>>)>>)

RowCatalog == <<RowHeading, RowLithium, RowCobaltOre, RowLeadLithium,
                RowLeadBad, RowCobaltEmpty, RowNested>>

Tokens == 0..Len(RowCatalog)

\* the token lists: empty, or starting with a table
Docs == {<<>>} \cup {<<0>> \o d : d \in SeqsUpTo(Tokens, MaxItems - 1)}

RECURSIVE BuildTables(_)
\* the top-level tables a token list denotes
BuildTables(toks) ==
    IF toks = <<>> THEN <<>>
    ELSE LET prev == BuildTables(SubSeq(toks, 1, Len(toks) - 1))
             tok  == toks[Len(toks)]
         IN  IF tok = 0 THEN Append(prev, Elem("table", "", <<>>, <<>>))
             ELSE [prev EXCEPT ![Len(prev)].kids = Append(@, RowCatalog[tok])]

\* BeautifulSoup(response.content, 'html.parser')
BeautifulSoup(toks) == Elem("[document]", "", <<>>, BuildTables(toks))

\* the target lists a scraper is constructed with
TargetLists == {DefaultTargets, <<Lead, Cobalt, <<>>>>}

----------------------------------------------------------------------------
(* scrape_commodities, fetch_page and scrape_all_tables                     *)

\* the elements of a list
Range(f) == {f[i] : i \in DOMAIN f}

\* the dataclass CommodityPrice; every record of a run shares one timestamp
CommodityPrice(name, price) ==
    [name |-> name, price |-> price, timestamp |-> "now",
     currency |-> "USD", unit |-> "per tonne"]

LogError(msg) == [level |-> "ERROR", msg |-> msg]

\* the whole target list taken for the missing targets
missing_all(targets, found) == Range(targets)

\* set(self.target_commodities) - found
missing(targets, found) == Range(targets) \ found

\* rows = table.find_all('tr') for table i of tbls (none past the last table)
RowsAt(doc, tbls, i) ==
    IF i <= Len(tbls) THEN find_all(doc, tbls[i], {"tr"}) ELSE <<>>

\* cols = row.find_all(['td', 'th']) for row j of rws; the loop runs over
\* rows[1:] and only when there are two rows or more
ColsAt(doc, rws, j) ==
    IF Len(rws) >= 2 /\ j <= Len(rws) THEN find_all(doc, rws[j], {"td", "th"}) ELSE <<>>

\* name = self.clean_commodity_name(cols[0].get_text(strip=True))
name == clean_commodity_name(get_text(NodeAt(soup, cols[1])))

\* the scan is at a row of rows[1:]
AtRow ==
    /\ pc = "scan"
    /\ ti <= Len(tables)
    /\ Len(rows) >= 2
    /\ ri <= Len(rows)

\* the for loop goes on to the next table
NextTable ==
    /\ ti' = ti + 1
    /\ rows' = RowsAt(soup, tables, ti + 1)
    /\ ri' = 2
    /\ cols' = ColsAt(soup, RowsAt(soup, tables, ti + 1), 2)

\* the for loop goes on to the next row
NextRow ==
    /\ ri' = ri + 1
    /\ cols' = ColsAt(soup, rows, ri + 1)
    /\ UNCHANGED <<ti, rows>>

Init ==
    /\ target_commodities \in TargetLists
    /\ pc = "start"
    /\ soup = Unbound
    /\ tables = Unbound
    /\ ti = 1
    /\ rows = <<>>
    /\ ri = 2
    /\ cols = <<>>
    /\ target = PyNone
    /\ results = EmptyMap
    /\ origin = EmptyMap
    /\ prices = Unbound
    /\ log = <<>>
    /\ cell = Unbound
    /\ price_text = PyNone
    /\ parsed = NoParse

\* what scrape_all_tables has when it reaches its first table:
\* tables = soup.find_all('table'), results = {}
EnterScan(doc) ==
    LET tbls == find_all(doc, <<>>, {"table"})
        rws  == RowsAt(doc, tbls, 1)
    IN  /\ soup' = doc
        /\ tables' = tbls
        /\ ti' = 1
        /\ rows' = rws
        /\ ri' = 2
        /\ cols' = ColsAt(doc, rws, 2)
        /\ results' = EmptyMap
        /\ origin' = EmptyMap

\* fetch_page returns the parsed document and scrape_all_tables starts
fetch_page_ok ==
    /\ pc = "start"
    /\ \E d \in Docs : EnterScan(BeautifulSoup(d))
    /\ pc' = "scan"
    /\ UNCHANGED <<target_commodities, target, prices, log>>
    /\ UNCHANGED cellVars

\* a fetch_page that raises without logging
fetch_page_fail_silent ==
    /\ pc = "start"
    /\ prices' = PyDict(EmptyMap)
    /\ pc' = "failed"
    /\ UNCHANGED <<target_commodities, soup, tables, ti, rows, ri, cols, target,
                   results, origin, log>>
    /\ UNCHANGED cellVars

\* the request raises: fetch_page logs and re-raises, scrape_commodities
\* catches the exception, logs and returns {}
fetch_page_fail ==
    /\ pc = "start"
    /\ log' = log \o <<LogError("Failed to fetch page"), LogError("Scraping failed")>>
    /\ prices' = PyDict(EmptyMap)
    /\ pc' = "failed"
    /\ UNCHANGED <<target_commodities, soup, tables, ti, rows, ri, cols, target,
                   results, origin>>
    /\ UNCHANGED cellVars

\* if len(rows) < 2: continue
SkipTable ==
    /\ pc = "scan"
    /\ ti <= Len(tables)
    /\ Len(rows) < 2
    /\ NextTable
    /\ UNCHANGED <<target_commodities, pc, soup, tables, target, results, origin,
                   prices, log>>
    /\ UNCHANGED cellVars

\* the loop over rows[1:] is exhausted
EndTable ==
    /\ pc = "scan"
    /\ ti <= Len(tables)
    /\ Len(rows) >= 2
    /\ ri > Len(rows)
    /\ NextTable
    /\ UNCHANGED <<target_commodities, pc, soup, tables, target, results, origin,
                   prices, log>>
    /\ UNCHANGED cellVars

\* a row with fewer than two cells is passed over
RowTooShort ==
    /\ AtRow
    /\ Len(cols) < 2
    /\ NextRow
    /\ UNCHANGED <<target_commodities, pc, soup, tables, target, results, origin,
                   prices, log>>
    /\ UNCHANGED cellVars

\* target = self.is_target_commodity(name); if not target: continue
RowNotTarget ==
    /\ AtRow
    /\ Len(cols) >= 2
    /\ ~Truthy(is_target_commodity(target_commodities, name))
    /\ target' = is_target_commodity(target_commodities, name)
    /\ NextRow
    /\ UNCHANGED <<target_commodities, pc, soup, tables, results, origin, prices, log>>
    /\ UNCHANGED cellVars

\* target = self.is_target_commodity(name), and the row goes on to its price
RowMatch ==
    /\ AtRow
    /\ Len(cols) >= 2
    /\ Truthy(is_target_commodity(target_commodities, name))
    /\ target' = is_target_commodity(target_commodities, name)
    /\ pc' = "price"
    /\ UNCHANGED <<target_commodities, soup, tables, ti, rows, ri, cols, results,
                   origin, prices, log>>
    /\ UNCHANGED cellVars

\* price_text = self.extract_price_from_cell(cols[1])
row_price_text == extract_price_from_cell(NodeAt(soup, cols[2]))

\* parse_price raises: the exception leaves scrape_all_tables, and
\* scrape_commodities catches it, logs and returns {}
RowRaise ==
    /\ pc = "price"
    /\ parse_price(row_price_text).raised # ""
    /\ log' = Append(log, LogError("Scraping failed"))
    /\ prices' = PyDict(EmptyMap)
    /\ pc' = "failed"
    /\ UNCHANGED <<target_commodities, soup, tables, ti, rows, ri, cols, target,
                   results, origin>>
    /\ UNCHANGED cellVars

\* parse_price returns None (with its warning when float() raised)
RowPriceNone ==
    /\ pc = "price"
    /\ parse_price(row_price_text).raised = ""
    /\ parse_price(row_price_text).ret = PyNone
    /\ log' = IF parse_price(row_price_text).warned
              THEN Append(log, [level |-> "WARNING", msg |-> "Could not parse price",
                                text |-> row_price_text])
              ELSE log
    /\ NextRow
    /\ pc' = "scan"
    /\ UNCHANGED <<target_commodities, soup, tables, target, results, origin, prices>>
    /\ UNCHANGED cellVars

\* results[target] = CommodityPrice(name=target, price=price_value, ...)
RowWrite ==
    /\ pc = "price"
    /\ parse_price(row_price_text).raised = ""
    /\ parse_price(row_price_text).ret # PyNone
    /\ results' = [t \in DOMAIN results \cup {target.s} |->
                     IF t = target.s
                     THEN CommodityPrice(target.s, parse_price(row_price_text).ret)
                     ELSE results[t]]
    /\ origin' = [t \in DOMAIN origin \cup {target.s} |->
                     IF t = target.s THEN rows[ri] ELSE origin[t]]
    /\ NextRow
    /\ pc' = "scan"
    /\ UNCHANGED <<target_commodities, soup, tables, target, prices, log>>
    /\ UNCHANGED cellVars

\* scrape_all_tables returns results; scrape_commodities warns about the
\* missing targets and returns the mapping
ScanReturn ==
    /\ pc = "scan"
    /\ ti > Len(tables)
    /\ log' = IF missing(target_commodities, DOMAIN results) # {}
              THEN Append(log, [level |-> "WARNING", msg |-> "Missing commodities",
                                missing |-> missing(target_commodities, DOMAIN results)])
              ELSE log
    /\ prices' = PyDict(results)
    /\ pc' = "returned"
    /\ UNCHANGED <<target_commodities, soup, tables, ti, rows, ri, cols, target,
                   results, origin>>
    /\ UNCHANGED cellVars

Next ==
    \/ fetch_page_ok
    \/ fetch_page_fail
    \/ SkipTable
    \/ EndTable
    \/ RowTooShort
    \/ RowNotTarget
    \/ RowMatch
    \/ RowRaise
    \/ RowPriceNone
    \/ RowWrite
    \/ ScanReturn

Spec == Init /\ [][Next]_vars

----------------------------------------------------------------------------
(* What a fetched document holds, read off the document itself.             *)

RECURSIVE DataRowsFrom(_)
\* the rows after the first of every table with two rows or more, from
\* table k on, in table order and then row order
DataRowsFrom(k) ==
    IF k > Len(tables) THEN <<>>
    ELSE LET rws == find_all(soup, tables[k], {"tr"})
         IN  (IF Len(rws) >= 2 THEN SubSeq(rws, 2, Len(rws)) ELSE <<>>)
             \o DataRowsFrom(k + 1)

\* the target a row stands for: the first target of the list found in the
\* cleaned text of its first cell (None for a row of fewer than two cells)
RowTarget(r) ==
    LET cs == find_all(soup, r, {"td", "th"})
    IN  IF Len(cs) < 2 THEN PyNone
        ELSE is_target_commodity(target_commodities,
                                 clean_commodity_name(get_text(NodeAt(soup, cs[1]))))

\* what parsing the second cell of a row gives
RowValue(r) ==
    LET cs == find_all(soup, r, {"td", "th"})
    IN  parse_price(extract_price_from_cell(NodeAt(soup, cs[2])))

\* the data rows that match target t and whose price is a number
ValidRows(t) ==
    SelectSeq(DataRowsFrom(1),
              LAMBDA r : /\ Truthy(RowTarget(r))
                         /\ RowTarget(r).s = t
                         /\ RowValue(r).ret.kind = "float")

\* the run is over and its fetch had succeeded
ScanEnded == pc \in {"returned", "failed"} /\ soup # Unbound

----------------------------------------------------------------------------
(* C1: for every document whose fetch succeeds, the mapping that            *)
(* scrape_commodities returns holds a record for every target that has at   *)
(* least one row with a valid price anywhere in the document, whatever the  *)
(* price cells of the other rows are.                                       *)
C1_NoRecordDiscarded ==
    ScanEnded =>
        \A i \in DOMAIN target_commodities :
            ValidRows(target_commodities[i]) # <<>>
                => target_commodities[i] \in DOMAIN prices.map

(* C2: last-write-wins.  When the call of scrape_all_tables is over it has  *)
(* returned a mapping in which every target carries the price of the last   *)
(* row, in table order and then row order, that matches it and whose price  *)
(* parses; a later matching row whose price does not parse changes nothing. *)
C2_LastWriteWins ==
    ScanEnded =>
        /\ pc = "returned"
        /\ \A t \in DOMAIN results :
               /\ ValidRows(t) # <<>>
               /\ results[t].price = RowValue(ValidRows(t)[Len(ValidRows(t))]).ret
        /\ \A i \in DOMAIN target_commodities :
               ValidRows(target_commodities[i]) # <<>>
                   => target_commodities[i] \in DOMAIN results

\* the part of C2 that the code keeps: in the runs where scrape_all_tables
\* returns, the mapping is the last-write-wins mapping
LastWriteWinsWhenReturned ==
    pc = "returned" =>
        /\ \A t \in DOMAIN results :
               /\ ValidRows(t) # <<>>
               /\ results[t].price = RowValue(ValidRows(t)[Len(ValidRows(t))]).ret
        /\ \A i \in DOMAIN target_commodities :
               ValidRows(target_commodities[i]) # <<>>
                   => target_commodities[i] \in DOMAIN results

\* a run that overwrote a record with another price
OverwriteSeen ==
    /\ pc = "returned"
    /\ \E t \in DOMAIN results :
          /\ Len(ValidRows(t)) >= 2
          /\ RowValue(ValidRows(t)[1]).ret # results[t].price

----------------------------------------------------------------------------
\* the logged records with the given message
Logged(msg) == {i \in DOMAIN log : log[i].msg = msg}

(* C3: if the document fetch fails, scrape_commodities reports the error    *)
(* and returns an empty mapping, and scrape_all_tables is never invoked in  *)
(* that run: no table list is built and no record is written.               *)
C3_FetchFailure ==
    (pc # "start" /\ soup = Unbound) =>
        /\ pc = "failed"
        /\ prices = PyDict(EmptyMap)
        /\ Logged("Failed to fetch page") # {}
        /\ Logged("Scraping failed") # {}
        /\ \A i \in DOMAIN log : log[i].level = "ERROR"
        /\ tables = Unbound
        /\ results = EmptyMap

C3_Witness == pc = "failed" /\ soup = Unbound

----------------------------------------------------------------------------
(* C4: after a run whose fetch and scan complete, a missing-commodities     *)
(* warning is emitted if and only if the configured targets minus the keys  *)
(* of the result mapping is non-empty, it names exactly that set, and the   *)
(* mapping is returned unchanged.                                           *)
C4_MissingWarning ==
    pc = "returned" =>
        LET miss == {target_commodities[i] : i \in DOMAIN target_commodities}
                        \ DOMAIN prices.map
        IN  /\ prices = PyDict(results)
            /\ (miss # {}) <=> (Logged("Missing commodities") # {})
            /\ Cardinality(Logged("Missing commodities")) <= 1
            /\ \A i \in Logged("Missing commodities") :
                   log[i].level = "WARNING" /\ log[i].missing = miss

\* targets Lithium, Lead and Cobalt with valid rows for Lithium and Cobalt only
C4_Witness ==
    /\ pc = "returned"
    /\ target_commodities = DefaultTargets
    /\ DOMAIN prices.map = {Lithium, Cobalt}
    /\ \E i \in DOMAIN log : log[i].msg = "Missing commodities" /\ log[i].missing = {Lead}

\* a complete run that found every target and warned about nothing
AllFound ==
    /\ pc = "returned"
    /\ DOMAIN prices.map = Range(target_commodities)
    /\ Logged("Missing commodities") = {}

----------------------------------------------------------------------------
\* the table a row belongs to: its nearest enclosing table element
TableOf(r) ==
    LET ks == {k \in 0..(Len(r) - 1) : NodeAt(soup, SubSeq(r, 1, k)).tag = "table"}
    IN  SubSeq(r, 1, CHOOSE k \in ks : \A j \in ks : j <= k)

\* r is the first row of its table
IsFirstRow(r) == r = Head(find_all(soup, TableOf(r), {"tr"}))

(* C5: the first row of every table is never treated as data: no record of  *)
(* the result mapping originates from a row that is the first row of its    *)
(* table, wherever the table sits in the document (a table in a cell of     *)
(* another table included).                                                 *)
C5_FirstRowNeverData ==
    \A t \in DOMAIN results : ~IsFirstRow(origin[t])

\* in the tables that are not inside another table the first row is skipped
TopLevelFirstRowNeverData ==
    \A t \in DOMAIN results :
        IsFirstRow(origin[t]) => Len(TableOf(origin[t])) > 1

----------------------------------------------------------------------------
(* C8: at every point of a scan and in the returned mapping, every key of   *)
(* the result mapping is one of the configured targets and the record       *)
(* stored under a key has that key as its name.                             *)
C8_KeysAreTargets ==
    /\ \A k \in DOMAIN results :
           /\ \E i \in DOMAIN target_commodities : target_commodities[i] = k
           /\ results[k].name = k
    /\ prices # Unbound =>
           \A k \in DOMAIN prices.map :
               /\ \E i \in DOMAIN target_commodities : target_commodities[i] = k
               /\ prices.map[k].name = k

\* a returned record whose key is not the text of the label that produced it
C8_Witness ==
    /\ pc = "returned"
    /\ \E k \in DOMAIN prices.map :
           LET cs == find_all(soup, origin[k], {"td", "th"})
           IN  get_text(NodeAt(soup, cs[1])) # k

----------------------------------------------------------------------------
\* the places of the targets whose lowercase form is in the lowercase label
MatchPlaces(label) ==
    {i \in DOMAIN target_commodities :
        Contains(lower(label), lower(target_commodities[i]))}

\* what C10 says is_target_commodity returns for the label
FirstMatch(label) ==
    IF MatchPlaces(label) = {} THEN PyNone
    ELSE PyStr(target_commodities[CHOOSE i \in MatchPlaces(label) :
                                      \A j \in MatchPlaces(label) : i <= j])

\* a step of the scan that decides whether a row of two cells or more is a
\* candidate
MatchStep == AtRow /\ Len(cols) >= 2 /\ (ri' # ri \/ pc' # pc)

(* C10 as stated: is_target_commodity returns the first target in list      *)
(* order whose lowercase form is in the lowercase label, None exactly when  *)
(* there is none, and a row is skipped exactly when no target matches its   *)
(* label.                                                                   *)
C10_SkippedIffNoMatch ==
    [][MatchStep =>
          /\ target' = FirstMatch(name)
          /\ (pc' = "scan" /\ ri' = ri + 1) <=> (MatchPlaces(name) = {})
      ]_vars

(* C10 as amended: is_target_commodity returns the first target in list     *)
(* order whose lowercase form is in the lowercase label, None exactly when  *)
(* there is none; a row of two cells or more is skipped at the match step   *)
(* exactly when no target matches its label or the first target that        *)
(* matches is the empty string, and otherwise goes on to its price cell as  *)
(* a candidate for that first target.                                       *)
C10_SkippedIffFalsy ==
    [][MatchStep =>
          /\ target' = FirstMatch(name)
          /\ (pc' = "scan" /\ ri' = ri + 1)
                 <=> (MatchPlaces(name) = {} \/ FirstMatch(name) = PyStr(<<>>))
          /\ (pc' = "price" /\ ri' = ri)
                 <=> (MatchPlaces(name) # {} /\ FirstMatch(name) # PyStr(<<>>))
      ]_vars

\* a row whose label holds two targets, taken for the one that is first in
\* the list though not first in the label
C10_Witness ==
    /\ pc = "price"
    /\ target_commodities = DefaultTargets
    /\ Contains(name, Lead)
    /\ target = PyStr(Lithium)

\* a row whose label matches only the empty target has been passed over
EmptyTargetSkipped ==
    /\ pc = "scan"
    /\ target = PyStr(<<>>)

----------------------------------------------------------------------------
(* Claims about extract_price_from_cell and parse_price, under SpecCell.    *)

\* the text has nothing left once every character other than digits,
\* periods and commas is removed
NothingLeft(s) == Keep(s, Digits \cup {".", ","}) = <<>>

\* something is left of the text, and it is no numeral: more than one
\* period, or no digit
Malformed(s) ==
    /\ ~NothingLeft(s)
    /\ \/ Cardinality({i \in 1..Len(s) : s[i] = "."}) > 1
       \/ ~HasDigit(s)

(* C6: every price-parse failure yields None and is reported as a warning   *)
(* without aborting the run: for every raw text handed to parse_price that  *)
(* is empty after cleaning or is a malformed numeral, parse_price returns   *)
(* None, a warning is logged and no exception leaves parse_price.           *)
C6_FailureWarns ==
    (pc = "parsed" /\ price_text.kind = "str"
        /\ (NothingLeft(price_text.s) \/ Malformed(price_text.s))) =>
        /\ parsed.ret = PyNone
        /\ parsed.warned
        /\ parsed.raised = ""

\* what the code keeps of C6: a text that fails to parse gives None and no
\* exception, and the warning is logged exactly for the malformed numerals
TextFailureGivesNone ==
    (pc = "parsed" /\ price_text.kind = "str"
        /\ (NothingLeft(price_text.s) \/ Malformed(price_text.s))) =>
        /\ parsed.ret = PyNone
        /\ parsed.warned <=> Malformed(price_text.s)
        /\ parsed.raised = ""

----------------------------------------------------------------------------
\* the text of what a strategy found
TextOf(v) == IF v.kind = "Tag" THEN PyStr(get_text(v.node)) ELSE v

\* the raw price text C7 describes: the first non-empty text among the four
\* strategies, None when there is none
ClaimedText(c) ==
    LET ts == SelectSeq([k \in 1..4 |-> TextOf(strategies(c)[k])], Truthy)
    IN  IF ts = <<>> THEN PyNone ELSE Head(ts)

\* the only content of the cell is one nested element with text "1,234.50"
OnlyNestedPrice(c) ==
    /\ Len(c.kids) = 1
    /\ c.kids[1].tag # "#text"
    /\ get_text(c.kids[1]) = T1234_50

(* C7: extract_price_from_cell returns the raw price text of the first      *)
(* strategy, in the fixed order, that yields a non-empty result, and None   *)
(* only when all four yield nothing; for a cell whose only content is one   *)
(* nested element with text "1,234.50", whatever its kind, id or class, it  *)
(* returns the string "1,234.50" and parse_price of it returns 1234.5.      *)
C7_ExtractsText ==
    pc \in {"extracted", "parsed"} =>
        /\ price_text = ClaimedText(cell)
        /\ OnlyNestedPrice(cell) =>
               /\ price_text = PyStr(T1234_50)
               /\ pc = "parsed" => parsed = [ret |-> PyFloat(<<"1", "2", "3", "4">>, <<"5">>),
                                             warned |-> FALSE, raised |-> ""]

\* what the code keeps of C7: a cell without an element that carries the
\* reserved id or a price class gives the text C7 describes
ExtractsTextWithoutMarkers ==
    (pc \in {"extracted", "parsed"}
        /\ find_id(cell, "p") = PyNone
        /\ find_class(cell, <<"p", "r", "i", "c", "e">>) = PyNone) =>
        /\ price_text = ClaimedText(cell)
        /\ OnlyNestedPrice(cell) =>
               /\ price_text = PyStr(T1234_50)
               /\ pc = "parsed" => parsed = [ret |-> PyFloat(<<"1", "2", "3", "4">>, <<"5">>),
                                             warned |-> FALSE, raised |-> ""]

----------------------------------------------------------------------------
\* the span, div and strong descendants of the cell whose text has a digit,
\* in document order
DigitElems(c) ==
    SelectSeq(find_all(c, <<>>, {"span", "div", "strong"}),
              LAMBDA e : HasDigit(get_text(NodeAt(c, e))))

\* extraction falls through to the third strategy, which finds something
FallsToThird(c) ==
    /\ find_id(c, "p") = PyNone
    /\ find_class(c, <<"p", "r", "i", "c", "e">>) = PyNone
    /\ DigitElems(c) # <<>>

\* the place of a tag in the list ['span', 'div', 'strong']
TagRank(tag) == CASE tag = "span" -> 1 [] tag = "div" -> 2 [] OTHER -> 3

\* the place of element e among the descendants of c
DocPlace(c, e) == CHOOSE j \in 1..Len(DescPaths(c)) : DescPaths(c)[j] = e

\* e comes first: by kind in the order span, div, strong, and within a kind
\* in document order
FirstByKind(c, e) ==
    \A j \in 1..Len(DigitElems(c)) :
        LET f == DigitElems(c)[j]
        IN  \/ TagRank(NodeAt(c, e).tag) < TagRank(NodeAt(c, f).tag)
            \/ /\ NodeAt(c, e).tag = NodeAt(c, f).tag
               /\ DocPlace(c, e) <= DocPlace(c, f)

(* C9 as stated: when extraction falls through to the third strategy, the   *)
(* text returned is that of the first descendant in document order, among   *)
(* the span, div and strong elements of the cell, whose text contains a     *)
(* digit.                                                                   *)
C9_FirstInDocumentOrder ==
    (pc = "extracted" /\ FallsToThird(cell)) =>
        price_text = PyStr(get_text(NodeAt(cell, Head(DigitElems(cell)))))

(* C9 as amended: when extraction falls through to the third strategy, the  *)
(* text returned is that of the first element whose text contains a digit   *)
(* when the span descendants are taken first, then the div descendants,     *)
(* then the strong descendants, each kind in document order.                *)
C9_FirstByKind ==
    (pc = "extracted" /\ FallsToThird(cell)) =>
        \E j \in 1..Len(DigitElems(cell)) :
            /\ FirstByKind(cell, DigitElems(cell)[j])
            /\ price_text = PyStr(get_text(NodeAt(cell, DigitElems(cell)[j])))

\* a div with text "12" followed by a span with text "34" gives "34"
C9_Witness ==
    /\ pc = "extracted"
    /\ cell.kids = <<Leaf("div", "", <<>>, T12), Leaf("span", "", <<>>, T34)>>
    /\ FallsToThird(cell)
    /\ price_text = PyStr(T34)

====
